---- MODULE Spec2Model ----
(***************************************************************************)
(* PiHoleEasyAdd, src/app.py: the SessionManager (login, get_session_id,   *)
(* invalidate), the background refresher, make_api_request and the route   *)
(* handlers get_blocked_queries and add_to_whitelist, as a state machine   *)
(* of Python threads.  One action is one step of one thread between two    *)
(* points where another thread can observe or change the shared fields of  *)
(* the session manager.  The aggregation of get_blocked_queries is a       *)
(* function of the upstream records and has a specification of its own.    *)
(*                                                                         *)
(* A `with self.lock:` block is entered by the block's first statement     *)
(* (acquire moves right to it) and left by its last one (release moves     *)
(* left to it); the statements in between are steps of their own, because  *)
(* get_session_id (line 79) and the failure paths of login (lines 63, 67)  *)
(* touch the fields without the lock.                                      *)
(***************************************************************************)
EXTENDS Integers, Sequences, FiniteSets, TLC

\* ------------------------------------------------------------- bounds
\* The clock advances in steps of TickMinutes up to MaxClock (minutes).
TickMinutes == 30
MaxClock == 60
\* The upstream answers /queries with at most MaxQueries records.
MaxQueries == 3

\* ---------------------------------------------------------- constants
\* SESSION_REFRESH_MINUTES (line 18, default '30')
SESSION_REFRESH_MINUTES == 30
\* max_retries (line 131)
max_retries == 2
\* MAX_ENTRIES (line 16, read from the environment; default '50'), here
\* set to 2
MAX_ENTRIES == 2

\* Python's None for the token, the error text and the results.
None == "None"
\* An absent time is the empty tuple, a time n is <<n>>.
NoTime == <<>>
At(n) == <<n>>

\* ------------------------------------------------------------ threads
\* main runs the module body (lines 92-107), bg is refresh_thread, w0, w1
\* and w2 are request threads of the serving runtime.
Main == "main"
Bg == "bg"
Workers == {"w0", "w1", "w2"}
Threads == {Main, Bg} \cup Workers
\* The program with its refresher and two concurrent requests.
ConcThreads == {Main, Bg, "w1", "w2"}
\* A request thread on its own: no refresher, no other request.
SeqThreads == {Main, "w0"}
\* The request thread whose calls the history variables record.
Observed == {"w0"}

\* -------------------------------------------------- upstream responses
\* A response of the authentication endpoint: raised is a transport-level
\* exception of requests.post (no response object); body.parses is whether
\* response.json() succeeds, body.sid is data['session']['sid'] (None when
\* the JSON has no such field); set_cookie is the Set-Cookie header, absent
\* (<<>>) or present (<<text>>), its text a sequence of lexical pieces.
Resp(status, parses, sid, cookie) ==
  [raised |-> FALSE, status_code |-> status,
   body |-> [parses |-> parses, sid |-> sid], set_cookie |-> cookie]

TransportError ==
  [raised |-> TRUE, status_code |-> 0,
   body |-> [parses |-> FALSE, sid |-> None], set_cookie |-> <<>>]

CookieTexts ==
  { <<"sid=", "B", ";", "Path=/">>,
    <<"sid=", "deleted", ";", "Max-Age=0">>,
    <<"sid=", ";", "Path=/">>,
    <<"lang=en">> }

AuthResponses ==
  {TransportError}
    \cup {Resp(200, TRUE, s, <<>>) : s \in {"A", "B", None}}
    \cup {Resp(200, FALSE, None, <<>>)}
    \cup {Resp(200, TRUE, None, <<c>>) : c \in CookieTexts}
    \cup {Resp(401, TRUE, None, <<>>)}
    \cup {Resp(401, TRUE, None, <<c>>) : c \in CookieTexts}

\* A response of the proxied API (requests.request, line 141).
ApiResponses ==
  {[raised |-> TRUE, status_code |-> 0]}
    \cup {[raised |-> FALSE, status_code |-> s] : s \in {200, 304, 401, 500}}

\* The responses drawn when threads run concurrently.
ConcAuthResponses == {TransportError, Resp(200, TRUE, "A", <<>>)}
ConcApiResponses ==
  {[raised |-> TRUE, status_code |-> 0]}
    \cup {[raised |-> FALSE, status_code |-> s] : s \in {200, 401}}

\* The JSON body of a POST /api/whitelist request: json is whether
\* request.get_json() yields an object, has whether it has the key
\* 'domain', domain the characters of its value.
Body(json, has, domain) == [json |-> json, has |-> has, domain |-> domain]

\* A request without a JSON body.
NoBody == Body(FALSE, FALSE, <<>>)

Bodies ==
  {NoBody, Body(TRUE, FALSE, <<>>)}
    \cup {Body(TRUE, TRUE, d) :
            d \in {<<>>, <<" ">>, <<" ", "\t">>, <<"a">>, <<" ", "a", " ">>}}

\* The bodies drawn when threads run concurrently: the two handlers make
\* the same call of make_api_request, and the concurrent calls are those
\* of get_blocked_queries.
ConcBodies == {Body(TRUE, TRUE, <<" ">>)}

\* A record of data['queries'] as the Pi-hole v6 API gives it (and
\* spec.md assumes it): a domain, a status and a time.  A record may lack
\* its domain.
QueryRecords ==
  [domain : {"", "a.com", "b.com", "c.com"}, status : {"GRAVITY"}, time : {1, 2}]
    \cup [status : {"DENYLIST"}, time : {2}]

\* The lists of at most n elements of S.
ListsUpTo(S, n) == UNION {[1..k -> S] : k \in 0..n}

\* --------------------------------------------- blocked-query aggregation
\* dict.get(key, default)
Get(d, key, default) == IF key \in DOMAIN d THEN d[key] ELSE default

\* Lines 207-221: the loop over data['queries'].  dc is domain_counts, a
\* dict, kept as the sequence of its values in insertion order.
RECURSIVE CountDomains(_, _)
CountDomains(qs, dc) ==
  IF qs = <<>> THEN dc
  ELSE
    LET domain == Get(Head(qs), "domain", "")
        timestamp == Get(Head(qs), "timestamp", 0)
        known == \E i \in 1..Len(dc) : dc[i].domain = domain
        dc1 == IF known THEN dc
               ELSE Append(dc, [count |-> 0, latest_timestamp |-> timestamp,
                                domain |-> domain])
        dc2 == [i \in 1..Len(dc1) |->
                 IF dc1[i].domain = domain
                 THEN [dc1[i] EXCEPT
                         !.count = @ + 1,
                         !.latest_timestamp =
                            IF timestamp > @ THEN timestamp ELSE @]
                 ELSE dc1[i]]
    IN CountDomains(Tail(qs), IF domain # "" THEN dc2 ELSE dc)

\* An entry of domain_counts put into the sorted list of the entries that
\* follow it there: before the first entry whose latest_timestamp is not
\* greater (sorted() is stable, with reverse=True too).
RECURSIVE InsertSorted(_, _)
InsertSorted(e, l) ==
  IF l = <<>> THEN <<e>>
  ELSE IF Head(l).latest_timestamp > e.latest_timestamp
  THEN <<Head(l)>> \o InsertSorted(e, Tail(l))
  ELSE <<e>> \o l

\* sorted(domain_counts.values(), key=latest_timestamp, reverse=True)
\* (lines 224-228)
RECURSIVE SortedDescending(_)
SortedDescending(l) ==
  IF l = <<>> THEN <<>>
  ELSE InsertSorted(Head(l), SortedDescending(Tail(l)))

\* Lines 203-228: blocked_list for data['queries'] = qs.
BlockedList(qs) ==
  LET sorted == SortedDescending(CountDomains(qs, <<>>)) IN
    SubSeq(sorted, 1, IF Len(sorted) < MAX_ENTRIES THEN Len(sorted) ELSE MAX_ENTRIES)

\* No blocked_list yet; a computed one is <<list>>.
NoList == <<>>

\* ------------------------------------------------------ login, as code
\* The first index of x in seq, 0 if there is none.
IndexOf(seq, x) ==
  IF \E i \in 1..Len(seq) : seq[i] = x
  THEN CHOOSE i \in 1..Len(seq) : seq[i] = x /\ \A j \in 1..(i - 1) : seq[j] # x
  ELSE 0

\* The pieces of seq before the first piece that is in stops.
UpTo(seq, stops) ==
  IF \E i \in 1..Len(seq) : seq[i] \in stops
  THEN SubSeq(seq, 1,
         (CHOOSE i \in 1..Len(seq) :
            seq[i] \in stops /\ \A j \in 1..(i - 1) : seq[j] \notin stops) - 1)
  ELSE seq

\* The text of a sequence of at most one piece ('' for none).
Text(pieces) == IF Len(pieces) = 0 THEN "" ELSE pieces[1]

\* cookies.split('sid=')[1].split(';')[0] (line 56): what follows the
\* first 'sid=' up to the next 'sid=' or ';'.
CookieSid(cookies) ==
  Text(UpTo(SubSeq(cookies, IndexOf(cookies, "sid=") + 1, Len(cookies)),
            {"sid=", ";"}))

\* f"Login failed: {response.status_code}" (line 63)
LoginFailed(status) ==
  CASE status = 200 -> "Login failed: 200"
    [] status = 401 -> "Login failed: 401"
    [] OTHER -> "Login failed"

\* The outcome of the body of login: a token to install (ret TRUE), a
\* failure (ret FALSE, err the text for last_error) or an exception exc.
Outcome(ret, sid, err, exc) == [ret |-> ret, sid |-> sid, err |-> err, exc |-> exc]

\* The try block of login (lines 36-64).
LoginTry(r) ==
  IF r.raised THEN Outcome(FALSE, None, None, "ConnectionError")
  ELSE IF r.status_code = 200 /\ ~r.body.parses
    THEN Outcome(FALSE, None, None, "JSONDecodeError")
  ELSE IF r.status_code = 200 /\ r.body.sid # None
    THEN Outcome(TRUE, r.body.sid, None, None)
  ELSE IF r.set_cookie # <<>> /\ IndexOf(r.set_cookie[1], "sid=") # 0
    THEN Outcome(TRUE, CookieSid(r.set_cookie[1]), None, None)
  ELSE Outcome(FALSE, None, LoginFailed(r.status_code), None)

\* Mutant of LoginExcept: only the transport exceptions of requests are
\* caught (except requests.RequestException), a parse failure propagates.
LoginExceptNarrow(e) ==
  IF e = "ConnectionError"
  THEN Outcome(FALSE, None, "Login error: connection", None)
  ELSE Outcome(FALSE, None, None, e)

\* The except clause of login (lines 66-68): every Exception is caught.
LoginExcept(e) ==
  Outcome(FALSE, None,
          IF e = "ConnectionError" THEN "Login error: connection"
          ELSE "Login error: json", None)

LoginOutcome(r) ==
  LET b == LoginTry(r) IN IF b.exc # None THEN LoginExcept(b.exc) ELSE b

\* Python truthiness of a token: None and '' are falsy.
Truthy(tok) == tok # None /\ tok # ""

\* -------------------------------------------------------------- state
VARIABLES
  session_id,      \* SessionManager.session_id (line 28)
  session_expiry,  \* SessionManager.session_expiry (line 29)
  last_error,      \* SessionManager.last_error (line 31)
  lock,            \* SessionManager.lock (line 30): the holder, or None
  now,             \* datetime.now(), in minutes
  bg_wake,         \* when time.sleep of the refresher (line 101) ends
  pc,              \* each thread's position
  stack,           \* each thread's return positions, innermost first
  attempt,         \* make_api_request: attempt (line 133)
  auth_response,   \* login: response (line 36), once it yields a token
  headers,         \* make_api_request: headers['X-FTL-SID'] (line 135)
  result,          \* make_api_request: how the call ended, in which attempt
  r_sid,           \* get_session_id, line 79: the session_id it read
  r_exp,           \* get_session_id, line 79: the session_expiry it read
  gs_result,       \* get_session_id: the value returned (line 83)
  expiry_for,      \* history: the token session_expiry was written with
  r_for,           \* history: expiry_for when r_exp was read
  gs_stale,        \* history: the session was stale at get_session_id's entry
  gs_logins,       \* history: login() calls of this get_session_id call
  login_time,      \* history: datetime.now() read at line 48 or 59
  log,             \* history: the events of this make_api_request call
  handler,         \* the route handler a request thread is running
  reply,           \* the (body, status) that handler returns
  req,             \* add_to_whitelist: the JSON body of the request (line 267)
  queries,         \* get_blocked_queries: data['queries'] (line 207)
  blocked_list     \* get_blocked_queries: blocked_list (lines 205, 230)

shared == <<session_id, session_expiry, last_error, lock, expiry_for>>
time == <<now, bg_wake>>
ctl == <<pc, stack, attempt>>
loginv == <<auth_response, login_time>>
regs == <<r_sid, r_exp, r_for>>
gsv == <<regs, gs_result, gs_stale, gs_logins>>
marv == <<headers, result, log>>
hv == <<handler, reply, req>>
aggv == <<queries, blocked_list>>
vars == <<shared, time, ctl, loginv, gsv, marv, hv, aggv>>

NoResponse == [raised |-> FALSE, status_code |-> 0,
               body |-> [parses |-> FALSE, sid |-> None], set_cookie |-> <<>>]
NoResult == [kind |-> "running", status_code |-> 0, exc |-> None, at |-> 0]
\* What a handler returns: the kind of its JSON body and the HTTP status.
Reply(body, status) == [body |-> body, status |-> status]
NoReply == Reply(None, 0)
\* A register of line 79 that holds nothing.
Unread == "unread"

\* One event of a make_api_request call.
Ev(e, sid, status, ok) == [e |-> e, sid |-> sid, status |-> status, ok |-> ok]

\* A session that get_session_id is to renew: no token, or an expiry that
\* has passed.
Stale(tok, exp, clock) == ~Truthy(tok) \/ (exp # NoTime /\ clock >= exp[1])

\* __init__ (lines 27-31), then the module body about to call login (95).
InitProgram ==
  /\ session_id = None
  /\ session_expiry = NoTime
  /\ last_error = None
  /\ lock = None
  /\ expiry_for = None
  /\ now = 0
  /\ bg_wake = 0
  /\ pc = [t \in Threads |-> IF t = Main THEN "login_36" ELSE "off"]
  /\ stack = [t \in Threads |-> IF t = Main THEN <<"main_106">> ELSE <<>>]
  /\ attempt = [t \in Threads |-> 0]
  /\ auth_response = [t \in Threads |-> NoResponse]
  /\ headers = [t \in Threads |-> None]
  /\ result = [t \in Threads |-> NoResult]
  /\ r_sid = [t \in Threads |-> Unread]
  /\ r_exp = [t \in Threads |-> NoTime]
  /\ r_for = [t \in Threads |-> Unread]
  /\ gs_result = [t \in Threads |-> None]
  /\ gs_stale = [t \in Threads |-> FALSE]
  /\ gs_logins = [t \in Threads |-> 0]
  /\ login_time = [t \in Threads |-> 0]
  /\ log = [t \in Threads |-> <<>>]
  /\ handler = [t \in Threads |-> None]
  /\ reply = [t \in Threads |-> NoReply]
  /\ req = [t \in Threads |-> NoBody]

Init == InitProgram /\ queries = <<>> /\ blocked_list = NoList

\* ------------------------------------------------- calls and exceptions
Goto(t, p) == pc' = [pc EXCEPT ![t] = p] /\ UNCHANGED stack

Call(t, target, back) ==
  /\ pc' = [pc EXCEPT ![t] = target]
  /\ stack' = [stack EXCEPT ![t] = <<back>> \o @]

Return(t) ==
  /\ pc' = [pc EXCEPT ![t] = Head(stack[t])]
  /\ stack' = [stack EXCEPT ![t] = Tail(@)]

Logged(t, ev) ==
  log' = IF t \in Observed THEN [log EXCEPT ![t] = Append(@, ev)] ELSE log

\* Mutant of Raise: the final attempt's exception is swallowed and None
\* returned, as the docstring of make_api_request has it.
RaiseSwallow(t, e) ==
  /\ stack' = [stack EXCEPT ![t] = <<>>]
  /\ IF t \in Workers
     THEN IF attempt[t] < max_retries - 1
          THEN pc' = [pc EXCEPT ![t] = "mar_164"] /\ UNCHANGED result
          ELSE /\ pc' = [pc EXCEPT ![t] = "mar_done"]
               /\ result' = [result EXCEPT ![t] =
                    [kind |-> "none", status_code |-> 0, exc |-> None,
                     at |-> attempt[t]]]
     ELSE pc' = [pc EXCEPT ![t] = "dead"] /\ UNCHANGED result

\* An exception e raised in thread t.  A request thread is inside the try
\* of make_api_request (lines 134-159), whose except clause (161-166)
\* goes to the backoff on a non-final attempt and re-raises on the final
\* one; main and the refresher have no handler and end.
Raise(t, e) ==
  /\ stack' = [stack EXCEPT ![t] = <<>>]
  /\ IF t \in Workers
     THEN IF attempt[t] < max_retries - 1
          THEN pc' = [pc EXCEPT ![t] = "mar_164"] /\ UNCHANGED result
          ELSE /\ pc' = [pc EXCEPT ![t] = "mar_done"]
               /\ result' = [result EXCEPT ![t] =
                    [kind |-> "raised", status_code |-> 0, exc |-> e,
                     at |-> attempt[t]]]
     ELSE pc' = [pc EXCEPT ![t] = "dead"] /\ UNCHANGED result

\* The locals of thread t, and what is remembered of its calls, are reset.
Forget(t) ==
  /\ attempt' = [attempt EXCEPT ![t] = 0]
  /\ auth_response' = [auth_response EXCEPT ![t] = NoResponse]
  /\ headers' = [headers EXCEPT ![t] = None]
  /\ result' = [result EXCEPT ![t] = NoResult]
  /\ r_sid' = [r_sid EXCEPT ![t] = Unread]
  /\ r_exp' = [r_exp EXCEPT ![t] = NoTime]
  /\ r_for' = [r_for EXCEPT ![t] = Unread]
  /\ gs_result' = [gs_result EXCEPT ![t] = None]
  /\ gs_stale' = [gs_stale EXCEPT ![t] = FALSE]
  /\ gs_logins' = [gs_logins EXCEPT ![t] = 0]
  /\ login_time' = [login_time EXCEPT ![t] = 0]
  /\ log' = [log EXCEPT ![t] = <<>>]

\* ---------------------------------------------------------------- login
\* Mutant of LoginResponse: a failed login drops the cached session.
LoginResponseClearing(t, r) ==
  LET o == LoginOutcome(r) IN
    IF o.exc # None
    THEN /\ Raise(t, o.exc)
         /\ UNCHANGED <<shared, auth_response, log>>
    ELSE IF o.ret
    THEN /\ auth_response' = [auth_response EXCEPT ![t] = r]
         /\ pc' = [pc EXCEPT ![t] = "login_46"]
         /\ UNCHANGED <<stack, shared, result, log>>
    ELSE /\ last_error' = o.err
         /\ session_id' = None
         /\ session_expiry' = NoTime
         /\ expiry_for' = None
         /\ log' = IF t \in Observed
                   THEN [log EXCEPT ![t] = Append(@, Ev("login", None, 0, FALSE))]
                   ELSE log
         /\ pc' = [pc EXCEPT ![t] = Head(stack[t])]
         /\ stack' = [stack EXCEPT ![t] = Tail(@)]
         /\ UNCHANGED <<lock, auth_response, result>>

\* Lines 36-44 and 52-56, 63-68: the response r of the authentication call
\* arrives and is examined.  A failure writes last_error (no lock) and
\* returns False; a token goes on to the locked update.
LoginResponse(t, r) ==
  LET o == LoginOutcome(r) IN
    IF o.exc # None
    THEN /\ Raise(t, o.exc)
         /\ UNCHANGED <<shared, auth_response, log>>
    ELSE IF o.ret
    THEN /\ auth_response' = [auth_response EXCEPT ![t] = r]
         /\ Goto(t, "login_46")
         /\ UNCHANGED <<shared, result, log>>
    ELSE /\ last_error' = o.err
         /\ Logged(t, Ev("login", None, 0, FALSE))
         /\ Return(t)
         /\ UNCHANGED <<session_id, session_expiry, lock, expiry_for,
                        auth_response, result>>

Login36(t, AR) ==
  /\ pc[t] = "login_36"
  /\ \E r \in AR : LoginResponse(t, r)
  /\ UNCHANGED <<hv, aggv, time, attempt, login_time, gsv, headers>>

\* Lines 45-46 and 57-58: the lock is taken and session_id written.
Login46(t) ==
  /\ pc[t] = "login_46"
  /\ lock = None
  /\ lock' = t
  /\ session_id' = LoginOutcome(auth_response[t]).sid
  /\ Goto(t, "login_48")
  /\ UNCHANGED <<hv, aggv,
                 session_expiry, last_error, expiry_for, time, attempt,
                 loginv, gsv, marv>>

\* Mutant of Login48: the refresh period is not added.
Login48NoRefresh(t) ==
  /\ pc[t] = "login_48"
  /\ session_expiry' = At(now)
  /\ expiry_for' = session_id
  /\ login_time' = [login_time EXCEPT ![t] = now]
  /\ pc' = [pc EXCEPT ![t] = "login_49"]
  /\ UNCHANGED <<hv, aggv, session_id, last_error, lock, time, stack, attempt,
                 auth_response, gsv, marv>>

\* Lines 48 and 59: session_expiry = now + SESSION_REFRESH_MINUTES.
Login48(t) ==
  /\ pc[t] = "login_48"
  /\ session_expiry' = At(now + SESSION_REFRESH_MINUTES)
  /\ expiry_for' = session_id
  /\ login_time' = [login_time EXCEPT ![t] = now]
  /\ Goto(t, "login_49")
  /\ UNCHANGED <<hv, aggv, session_id, last_error, lock, time, attempt,
                 auth_response, gsv, marv>>

\* Lines 49-50 and 60-61: last_error is cleared, the lock released and
\* True returned.
Login49(t) ==
  /\ pc[t] = "login_49"
  /\ last_error' = None
  /\ lock' = None
  /\ auth_response' = [auth_response EXCEPT ![t] = NoResponse]
  /\ login_time' = [login_time EXCEPT ![t] = 0]
  /\ Logged(t, Ev("login", session_id, 0, TRUE))
  /\ Return(t)
  /\ UNCHANGED <<hv, aggv,
                 session_id, session_expiry, expiry_for, time, attempt,
                 gsv, headers, result>>

\* ------------------------------------------------------- get_session_id
\* Mutant of Expired: the comparison is strict.
ExpiredStrict(clock, exp) == clock > exp[1]

\* `datetime.now() >= self.session_expiry` (line 79), for an expiry that
\* is not None.
Expired(clock, exp) == clock >= exp[1]

\* Lines 72-76: the locked block evaluates the condition and does nothing
\* with it (pass); it only waits for the lock.
Gs72(t) ==
  /\ pc[t] = "gs_72"
  /\ lock = None
  /\ Goto(t, "gs_79")
  /\ UNCHANGED <<hv, aggv, shared, time, attempt, loginv, gsv, marv>>

\* Mutant of Gs79: the check and the call of login() are inside the
\* locked block of lines 72-76.
Gs79HoldingLock(t) ==
  /\ pc[t] = "gs_79"
  /\ lock = None
  /\ r_sid' = [r_sid EXCEPT ![t] = session_id]
  /\ IF ~Truthy(session_id)
     THEN /\ lock' = t
          /\ pc' = [pc EXCEPT ![t] = "login_36"]
          /\ stack' = [stack EXCEPT ![t] = <<"gs_82">> \o @]
          /\ gs_logins' = [gs_logins EXCEPT ![t] =
               IF t \in Observed THEN @ + 1 ELSE @]
     ELSE /\ pc' = [pc EXCEPT ![t] = "gs_79b"]
          /\ UNCHANGED <<lock, stack, gs_logins>>
  /\ UNCHANGED <<hv, aggv, session_id, session_expiry, last_error,
                 expiry_for, time, attempt, loginv, r_exp, r_for, gs_result,
                 gs_stale, marv>>

\* Line 79, `not self.session_id`: session_id is read without the lock;
\* a falsy token goes to login (line 80).
Gs79(t) ==
  /\ pc[t] = "gs_79"
  /\ r_sid' = [r_sid EXCEPT ![t] = session_id]
  /\ IF ~Truthy(session_id)
     THEN /\ Call(t, "login_36", "gs_82")
          /\ gs_logins' = [gs_logins EXCEPT ![t] =
               IF t \in Observed THEN @ + 1 ELSE @]
     ELSE Goto(t, "gs_79b") /\ UNCHANGED gs_logins
  /\ UNCHANGED <<hv, aggv,
                 shared, time, attempt, loginv, r_exp, r_for, gs_result,
                 gs_stale, marv>>

\* Line 79, `self.session_expiry and ...`: the first read of
\* session_expiry, without the lock; None ends the condition as false.
Gs79b(t) ==
  /\ pc[t] = "gs_79b"
  /\ r_exp' = [r_exp EXCEPT ![t] = session_expiry]
  /\ r_for' = [r_for EXCEPT ![t] = expiry_for]
  /\ Goto(t, IF session_expiry = NoTime THEN "gs_82" ELSE "gs_79c")
  /\ UNCHANGED <<hv, aggv, shared, time, attempt, loginv, r_sid, gs_result,
                 gs_stale, gs_logins, marv>>

\* Line 79, `datetime.now() >= self.session_expiry`: the second read of
\* session_expiry, without the lock.  Comparing a datetime with None is a
\* TypeError; an expiry that has passed goes to login (line 80).
Gs79c(t) ==
  /\ pc[t] = "gs_79c"
  /\ r_exp' = [r_exp EXCEPT ![t] = session_expiry]
  /\ r_for' = [r_for EXCEPT ![t] = expiry_for]
  /\ IF session_expiry = NoTime
     THEN Raise(t, "TypeError") /\ UNCHANGED gs_logins
     ELSE IF Expired(now, session_expiry)
     THEN /\ Call(t, "login_36", "gs_82")
          /\ gs_logins' = [gs_logins EXCEPT ![t] =
               IF t \in Observed THEN @ + 1 ELSE @]
          /\ UNCHANGED result
     ELSE Goto(t, "gs_82") /\ UNCHANGED <<gs_logins, result>>
  /\ UNCHANGED <<hv, aggv,
                 shared, time, attempt, loginv, r_sid, gs_result, gs_stale,
                 headers, log>>

\* Lines 82-83: session_id is read under the lock and returned.
Gs82(t) ==
  /\ pc[t] = "gs_82"
  /\ lock = None
  /\ gs_result' = [gs_result EXCEPT ![t] = session_id]
  /\ Goto(t, "gs_83")
  /\ UNCHANGED <<hv, aggv,
                 shared, time, attempt, loginv, regs, gs_stale, gs_logins,
                 marv>>

\* get_session_id returns to its caller; the values read at line 79 are
\* gone.
Gs83(t) ==
  /\ pc[t] = "gs_83"
  /\ r_sid' = [r_sid EXCEPT ![t] = Unread]
  /\ r_exp' = [r_exp EXCEPT ![t] = NoTime]
  /\ r_for' = [r_for EXCEPT ![t] = Unread]
  /\ Return(t)
  /\ UNCHANGED <<hv, aggv, shared, time, attempt, loginv, gs_result, gs_stale,
                 gs_logins, marv>>

\* ----------------------------------------------------------- invalidate
\* Lines 87-88: the lock is taken and session_id cleared.
Inv88(t) ==
  /\ pc[t] = "inv_88"
  /\ lock = None
  /\ lock' = t
  /\ session_id' = None
  /\ Goto(t, "inv_89")
  /\ UNCHANGED <<hv, aggv,
                 session_expiry, last_error, expiry_for, time, attempt,
                 loginv, gsv, marv>>

\* Mutant of Inv89: the recorded error is cleared too.
Inv89ClearError(t) ==
  /\ pc[t] = "inv_89"
  /\ session_expiry' = NoTime
  /\ expiry_for' = None
  /\ last_error' = None
  /\ lock' = None
  /\ log' = IF t \in Observed
            THEN [log EXCEPT ![t] = Append(@, Ev("invalidate", None, 0, TRUE))]
            ELSE log
  /\ pc' = [pc EXCEPT ![t] = Head(stack[t])]
  /\ stack' = [stack EXCEPT ![t] = Tail(@)]
  /\ UNCHANGED <<hv, aggv, session_id, time, attempt, loginv, gsv,
                 headers, result>>

\* Mutant of Inv89: the expiry is left as it is.
Inv89KeepExpiry(t) ==
  /\ pc[t] = "inv_89"
  /\ lock' = None
  /\ pc' = [pc EXCEPT ![t] = Head(stack[t])]
  /\ stack' = [stack EXCEPT ![t] = Tail(@)]
  /\ UNCHANGED <<hv, aggv, session_id, session_expiry, expiry_for,
                 last_error, time, attempt, loginv, gsv, marv>>

\* Line 89: session_expiry is cleared, the lock released.
Inv89(t) ==
  /\ pc[t] = "inv_89"
  /\ session_expiry' = NoTime
  /\ expiry_for' = None
  /\ lock' = None
  /\ Logged(t, Ev("invalidate", None, 0, TRUE))
  /\ Return(t)
  /\ UNCHANGED <<hv, aggv, session_id, last_error, time, attempt, loginv, gsv,
                 headers, result>>

\* ------------------------------------------------------------- handlers
\* `not response` (lines 195, 283) for a requests.Response: its truth
\* value is response.ok, false for a status from 400 to 599.
ResponseTruthy(status) == ~(400 <= status /\ status < 600)

\* get_blocked_queries after the call (lines 195-260), res how the call
\* ended: an exception goes to one of the except clauses, None or a falsy
\* response to the reply of line 198, status 200 to the aggregated data,
\* every other response to the reply of line 246.
BlockedReply(res) ==
  IF res.kind = "raised"
  THEN Reply(IF res.exc = "ConnectionError" THEN "Failed to connect to PiHole"
             ELSE "Error processing request", 500)
  ELSE IF res.kind = "none" \/ ~ResponseTruthy(res.status_code)
  THEN Reply("Failed to connect to PiHole API", 500)
  ELSE IF res.status_code = 200
  THEN Reply("data", 200)
  ELSE Reply("PiHole API returned status code", res.status_code)

\* add_to_whitelist after the call (lines 283-316).
WhitelistReply(res) ==
  IF res.kind = "raised"
  THEN Reply(IF res.exc = "ConnectionError" THEN "Failed to connect to PiHole"
             ELSE "Error processing request", 500)
  ELSE IF res.kind = "none" \/ ~ResponseTruthy(res.status_code)
  THEN Reply("Failed to connect to PiHole API", 500)
  ELSE IF res.status_code \in {200, 201}
  THEN Reply("Successfully added", 200)
  ELSE Reply("Failed to add to whitelist: upstream error", res.status_code)

HandlerReply(h, res) ==
  IF h = "get_blocked_queries" THEN BlockedReply(res) ELSE WhitelistReply(res)

\* ----------------------------------------------------- make_api_request
\* A request thread enters make_api_request (lines 131-133), called by
\* a handler.
MarCall(t) ==
  /\ pc[t] = "idle"
  /\ Logged(t, Ev("call", session_id, 0, ~Stale(session_id, session_expiry, now)))
  /\ Goto(t, "mar_133")
  /\ UNCHANGED <<aggv, shared, time, attempt, loginv, gsv, headers, result>>

\* Line 133, `for attempt in range(max_retries)`: the next attempt calls
\* get_headers, which calls get_session_id (lines 135, 112); an exhausted
\* range falls through to `return None` (line 168).
Mar133(t) ==
  /\ pc[t] = "mar_133"
  /\ IF attempt[t] < max_retries
     THEN /\ Call(t, "gs_72", "mar_135")
          /\ gs_stale' = [gs_stale EXCEPT ![t] =
               t \in Observed /\ Stale(session_id, session_expiry, now)]
          /\ gs_logins' = [gs_logins EXCEPT ![t] = 0]
          /\ UNCHANGED result
     ELSE /\ Goto(t, "mar_done")
          /\ result' = [result EXCEPT ![t] =
               [kind |-> "none", status_code |-> 0, exc |-> None,
                at |-> attempt[t]]]
          /\ UNCHANGED <<gs_stale, gs_logins>>
  /\ UNCHANGED <<hv, aggv,
                 shared, time, attempt, loginv, regs, gs_result, headers,
                 log>>

\* Lines 113-116 and 141: the header is built from the token ('' for a
\* falsy one) and the request sent; get_session_id's frame is gone.
Mar135(t) ==
  /\ pc[t] = "mar_135"
  /\ headers' = [headers EXCEPT ![t] =
       IF Truthy(gs_result[t]) THEN gs_result[t] ELSE ""]
  /\ gs_result' = [gs_result EXCEPT ![t] = None]
  /\ gs_stale' = [gs_stale EXCEPT ![t] = FALSE]
  /\ gs_logins' = [gs_logins EXCEPT ![t] = 0]
  /\ Goto(t, "mar_141")
  /\ UNCHANGED <<hv, aggv, shared, time, attempt, loginv, regs, result, log>>

\* Mutant of ApiResponse: a 401 is retried on the final attempt too.
ApiResponseAlwaysRetry(t, r) ==
  /\ log' = IF t \in Observed
            THEN [log EXCEPT ![t] =
                   Append(@, [e |-> "request", sid |-> headers[t],
                              status |-> r.status_code, ok |-> ~r.raised])]
            ELSE log
  /\ IF r.raised
     THEN /\ stack' = [stack EXCEPT ![t] = <<>>]
          /\ IF attempt[t] < max_retries - 1
             THEN pc' = [pc EXCEPT ![t] = "mar_164"] /\ UNCHANGED result
             ELSE /\ pc' = [pc EXCEPT ![t] = "mar_done"]
                  /\ result' = [result EXCEPT ![t] =
                       [kind |-> "raised", status_code |-> 0,
                        exc |-> "ConnectionError", at |-> attempt[t]]]
     ELSE IF r.status_code = 401
     THEN /\ pc' = [pc EXCEPT ![t] = "inv_88"]
          /\ stack' = [stack EXCEPT ![t] = <<"mar_156">> \o @]
          /\ UNCHANGED result
     ELSE /\ pc' = [pc EXCEPT ![t] = "mar_done"]
          /\ UNCHANGED stack
          /\ result' = [result EXCEPT ![t] =
               [kind |-> "response", status_code |-> r.status_code,
                exc |-> None, at |-> attempt[t]]]

\* Lines 141-166: the request ends with r.  A transport exception goes to
\* the except clause; a 401 on a non-final attempt to invalidate (line
\* 155); every other response is returned (line 159).
ApiResponse(t, r) ==
  /\ Logged(t, Ev("request", headers[t], r.status_code, ~r.raised))
  /\ IF r.raised
     THEN Raise(t, "ConnectionError")
     ELSE IF r.status_code = 401 /\ attempt[t] < max_retries - 1
     THEN Call(t, "inv_88", "mar_156") /\ UNCHANGED result
     ELSE /\ Goto(t, "mar_done")
          /\ result' = [result EXCEPT ![t] =
               [kind |-> "response", status_code |-> r.status_code,
                exc |-> None, at |-> attempt[t]]]

Mar141(t, PR) ==
  /\ pc[t] = "mar_141"
  /\ \E r \in PR : ApiResponse(t, r)
  /\ headers' = [headers EXCEPT ![t] = None]
  /\ UNCHANGED <<hv, aggv, shared, time, attempt, loginv, gsv>>

\* Line 156: login() after the invalidation.
Mar156(t) ==
  /\ pc[t] = "mar_156"
  /\ Call(t, "login_36", "mar_157")
  /\ UNCHANGED <<hv, aggv, shared, time, attempt, loginv, gsv, marv>>

\* Line 157: continue with the next attempt.
Mar157(t) ==
  /\ pc[t] = "mar_157"
  /\ attempt' = [attempt EXCEPT ![t] = @ + 1]
  /\ Goto(t, "mar_133")
  /\ UNCHANGED <<hv, aggv, shared, time, loginv, gsv, marv>>

\* Lines 164-165: time.sleep(1), then the next attempt.
Mar164(t) ==
  /\ pc[t] = "mar_164"
  /\ Logged(t, Ev("sleep", None, 0, TRUE))
  /\ attempt' = [attempt EXCEPT ![t] = @ + 1]
  /\ Goto(t, "mar_133")
  /\ UNCHANGED <<hv, aggv, shared, time, loginv, gsv, headers, result>>

\* The call has ended and the handler that made it takes over: it turns
\* what the call gave into its reply.  The locals of the call are gone.
MarDone(t) ==
  /\ pc[t] = "mar_done"
  /\ reply' = [reply EXCEPT ![t] = HandlerReply(handler[t], result[t])]
  /\ Goto(t, "replied")
  /\ Forget(t)
  /\ UNCHANGED <<handler, req, aggv, shared, time>>

\* The serving runtime has sent the reply; the thread is free again.
Replied(t) ==
  /\ pc[t] = "replied"
  /\ handler' = [handler EXCEPT ![t] = None]
  /\ reply' = [reply EXCEPT ![t] = NoReply]
  /\ req' = [req EXCEPT ![t] = NoBody]
  /\ Goto(t, "idle")
  /\ UNCHANGED <<aggv, shared, time, attempt, loginv, gsv, marv>>

\* ------------------------------------------------------ handler entries
\* GET /api/blocked: get_blocked_queries calls make_api_request (line 185).
GetBlockedQueries(t) ==
  /\ MarCall(t)
  /\ handler' = [handler EXCEPT ![t] = "get_blocked_queries"]
  /\ UNCHANGED <<reply, req>>

Whitespace == {" ", "\t"}

\* Mutant of Strip: nothing is removed.
StripNothing(s) == s

\* str.strip(): the characters from the first to the last one that is not
\* whitespace.
Strip(s) ==
  LET keep == {i \in 1..Len(s) : s[i] \notin Whitespace} IN
    IF keep = {} THEN <<>>
    ELSE SubSeq(s, CHOOSE i \in keep : \A j \in keep : i <= j,
                   CHOOSE i \in keep : \A j \in keep : i >= j)

\* POST /api/whitelist with body b (lines 267-281): a body that is no
\* object makes data.get raise (caught at line 312), a domain that is
\* empty after strip() is refused (line 270), any other is sent upstream.
AddToWhitelist(t, BD) ==
  /\ pc[t] = "idle"
  /\ handler' = [handler EXCEPT ![t] = "add_to_whitelist"]
  /\ \E b \in BD :
       /\ req' = [req EXCEPT ![t] = b]
       /\ IF ~b.json
          THEN /\ reply' = [reply EXCEPT ![t] = Reply("Error processing request", 500)]
               /\ Goto(t, "replied")
               /\ UNCHANGED <<aggv, shared, time, attempt, loginv, gsv, marv>>
          ELSE IF Strip(IF b.has THEN b.domain ELSE <<>>) = <<>>
          THEN /\ reply' = [reply EXCEPT ![t] = Reply("Domain is required", 400)]
               /\ Goto(t, "replied")
               /\ UNCHANGED <<aggv, shared, time, attempt, loginv, gsv, marv>>
          ELSE MarCall(t) /\ UNCHANGED reply

\* ------------------------------------------- module body and refresher
\* Lines 106-107 after the login of line 95: the refresher is started and
\* the application serves requests.
Main106 ==
  /\ pc[Main] = "main_106"
  /\ pc' = [t \in Threads |->
             IF t = Main THEN "main_done"
             ELSE IF t = Bg THEN "bg_101" ELSE "idle"]
  /\ bg_wake' = now + SESSION_REFRESH_MINUTES
  /\ Forget(Main)
  /\ UNCHANGED <<hv, aggv, shared, now, stack>>

\* Lines 101-102: the sleep has ended and the refresher calls login().
Bg102 ==
  /\ pc[Bg] = "bg_101"
  /\ now >= bg_wake
  /\ Call(Bg, "login_36", "bg_100")
  /\ UNCHANGED <<hv, aggv, shared, time, attempt, loginv, gsv, marv>>

\* Mutant of Bg100: the loop ends when a login has left an error.
Bg100StopOnError ==
  /\ pc[Bg] = "bg_100"
  /\ bg_wake' = now + SESSION_REFRESH_MINUTES
  /\ pc' = [pc EXCEPT ![Bg] = IF last_error # None THEN "dead" ELSE "bg_101"]
  /\ UNCHANGED stack
  /\ Forget(Bg)
  /\ UNCHANGED <<hv, aggv, shared, now>>

\* Lines 100-101: the loop goes around and sleeps again.
Bg100 ==
  /\ pc[Bg] = "bg_100"
  /\ bg_wake' = now + SESSION_REFRESH_MINUTES
  /\ Goto(Bg, "bg_101")
  /\ Forget(Bg)
  /\ UNCHANGED <<hv, aggv, shared, now>>

\* ---------------------------------------------------------------- clock
\* Time passes.
Tick ==
  /\ now + TickMinutes <= MaxClock
  /\ now' = now + TickMinutes
  /\ UNCHANGED <<hv, aggv, shared, bg_wake, ctl, loginv, gsv, marv>>

\* Time passes between two calls: with the timeouts of lines 39 and 145
\* (10 s) and the backoff of line 164 (1 s), a call that no other thread
\* delays ends within one minute.
TickIdle ==
  /\ \A t \in Threads :
       pc[t] \in {"off", "idle", "replied", "main_done", "bg_101"}
  /\ Tick

\* A time of the past TickMinutes earlier, on a clock whose origin has
\* moved on by TickMinutes (what is older than the origin is at it).
Back(n) == IF n >= TickMinutes THEN n - TickMinutes ELSE 0

\* Time passes without end: at MaxClock the origin of the clock moves on
\* instead of the reading, and with it every stored time.
TickOn ==
  IF now + TickMinutes <= MaxClock
  THEN Tick
  ELSE /\ session_expiry' =
            IF session_expiry = NoTime THEN NoTime ELSE At(Back(session_expiry[1]))
       /\ bg_wake' = Back(bg_wake)
       /\ login_time' = [t \in Threads |-> Back(login_time[t])]
       /\ UNCHANGED <<hv, aggv, session_id, last_error, lock, expiry_for, now,
                      ctl, auth_response, gsv, marv>>

\* ---------------------------------------------------------- aggregation
\* Lines 203-228 of get_blocked_queries, for the body of a 200 response.
Aggregate ==
  /\ blocked_list = NoList
  /\ blocked_list' = <<BlockedList(queries)>>
  /\ UNCHANGED <<queries, shared, time, ctl, loginv, gsv, marv, hv>>

\* ------------------------------------------------------- specifications
\* One step of thread t, its responses drawn from AR and PR.
Step(t, AR, PR, BD) ==
  \/ Login36(t, AR) \/ Login46(t) \/ Login48(t) \/ Login49(t)
  \/ Gs72(t) \/ Gs79(t) \/ Gs79b(t) \/ Gs79c(t) \/ Gs82(t) \/ Gs83(t)
  \/ Inv88(t) \/ Inv89(t)
  \/ GetBlockedQueries(t) \/ AddToWhitelist(t, BD)
  \/ Mar133(t) \/ Mar135(t) \/ Mar141(t, PR) \/ Mar156(t)
  \/ Mar157(t) \/ Mar164(t) \/ MarDone(t) \/ Replied(t)

\* The program: the module body, the refresher and two request threads.
Next ==
  \/ \E t \in ConcThreads : Step(t, ConcAuthResponses, ConcApiResponses, ConcBodies)
  \/ Main106
  \/ Bg102
  \/ Bg100
  \/ Tick

Spec == Init /\ [][Next]_vars

\* One request thread and no refresher: a call runs undisturbed.
SeqNext ==
  \/ \E t \in SeqThreads : Step(t, AuthResponses, ApiResponses, Bodies)
  \/ Main106
  \/ TickIdle

SeqSpec == Init /\ [][SeqNext]_vars

\* The aggregation of get_blocked_queries on every list of at most
\* MaxQueries records.
AggInit ==
  /\ InitProgram
  /\ queries \in ListsUpTo(QueryRecords, MaxQueries)
  /\ blocked_list = NoList

AggNext == Aggregate

AggSpec == AggInit /\ [][AggNext]_vars

\* The refresher for ever: the module body, the refresher and one request
\* thread, on a clock that does not stop.
LiveThreads == {Main, Bg, "w1"}

LiveAuthResponses ==
  {TransportError, Resp(200, TRUE, "A", <<>>), Resp(200, FALSE, None, <<>>),
   Resp(401, TRUE, None, <<>>)}

LiveNext ==
  \/ \E t \in LiveThreads :
       Step(t, LiveAuthResponses, ConcApiResponses, ConcBodies)
  \/ Main106
  \/ Bg102
  \/ Bg100
  \/ TickOn

\* A thread inside a call is scheduled, the authentication request ends
\* (timeout=10, line 39) and time.sleep ends: weak fairness of the steps
\* of main and of the refresher and of the clock.  A thread that holds the
\* lock releases it, and a thread waiting for threading.Lock gets it at
\* some release: strong fairness of the refresher's acquisition.
LiveSpec ==
  /\ Init /\ [][LiveNext]_vars
  /\ WF_vars(TickOn)
  /\ WF_vars(Main106) /\ WF_vars(Bg102) /\ WF_vars(Bg100)
  /\ \A t \in LiveThreads :
       /\ WF_vars(Login36(t, LiveAuthResponses))
       /\ WF_vars(Login48(t)) /\ WF_vars(Login49(t)) /\ WF_vars(Inv89(t))
  /\ WF_vars(Login46(Main))
  /\ SF_vars(Login46(Bg))

\* ================================================================ claims
\* The events of kind k in a log, in order.
Events(l, k) == SelectSeq(l, LAMBDA ev : ev.e = k)

InLogin(t) == pc[t] \in {"login_46", "login_48", "login_49"}

\* C1: every read of the session state observes a token and an expiry
\* that one single write produced: the session_expiry that line 79 reads
\* was written together with the session_id it read just before, and
\* whenever the lock is free (so at every locked read) the stored expiry
\* is the one written with the stored token.
PairingInvariant ==
  /\ \A t \in Threads : r_for[t] # Unread => r_for[t] = r_sid[t]
  /\ lock = None => expiry_for = session_id

\* C2: a make_api_request call that starts with a valid cached session,
\* gets 401 and then 200 from upstream and whose logins succeed consists
\* of exactly: the first attempt with the cached token, one invalidate(),
\* one login(), the second attempt with the token of that login; and the
\* 200 response is returned.
Retry401Pre(t) ==
  LET reqs == Events(log[t], "request") IN
    /\ pc[t] = "mar_done"
    /\ log[t][1].ok
    /\ Len(reqs) = 2
    /\ reqs[1].ok /\ reqs[1].status = 401
    /\ reqs[2].ok /\ reqs[2].status = 200
    /\ \A i \in 1..Len(log[t]) : log[t][i].e = "login" => log[t][i].ok

Retry401 ==
  \A t \in Observed :
    Retry401Pre(t) =>
      /\ Len(log[t]) = 5
      /\ log[t][2] = Ev("request", log[t][1].sid, 401, TRUE)
      /\ log[t][3] = Ev("invalidate", None, 0, TRUE)
      /\ log[t][4].e = "login" /\ log[t][4].ok
      /\ log[t][5] = Ev("request", log[t][4].sid, 200, TRUE)
      /\ result[t] = [kind |-> "response", status_code |-> 200,
                      exc |-> None, at |-> 1]

\* C2 witness: such a call has ended, its second attempt carrying a token
\* other than the cached one.
Retry401Witness ==
  \E t \in Observed :
    Retry401Pre(t) /\ Len(log[t]) = 5 /\ log[t][5].sid # log[t][1].sid

\* C3: a make_api_request call whose two upstream attempts both fail with
\* a transport exception waits exactly once, between the two attempts,
\* then raises the second failure; it invalidates nothing and returns no
\* response.
TransportPre(t) ==
  LET reqs == Events(log[t], "request") IN
    /\ pc[t] = "mar_done"
    /\ Len(reqs) = 2
    /\ ~reqs[1].ok /\ ~reqs[2].ok

LoginNeverRaises ==
  [][\A t \in Threads :
       /\ (pc[t] = "login_36" /\ pc'[t] # "login_36") =>
            \/ pc'[t] = "login_46"
            \/ /\ pc'[t] = Head(stack[t])
               /\ stack'[t] = Tail(stack[t])
               /\ last_error' # None /\ last_error' # ""
       /\ (pc[t] = "login_49" /\ pc'[t] # "login_49") =>
            /\ pc'[t] = Head(stack[t])
            /\ stack'[t] = Tail(stack[t])]_vars

\* C4 witness: a login of the request has returned False on a response
\* with an unparseable body, and last_error holds the text.
LoginNeverRaisesWitness ==
  \E t \in Observed :
    /\ Len(log[t]) >= 2
    /\ log[t][Len(log[t])] = Ev("login", None, 0, FALSE)
    /\ last_error = "Login error: json"

\* C5: a token extracted from the Set-Cookie header that is empty or the
\* cleared sentinel 'deleted' is not accepted: login() is never on its
\* way to store such a value, and the store never holds one.
SentinelRejection ==
  /\ session_id # "deleted" /\ session_id # ""
  /\ \A t \in Threads :
       InLogin(t) => LoginOutcome(auth_response[t]).sid \notin {"deleted", ""}

\* C6: a response of the authentication endpoint with a status other
\* than 200 makes login() fail: login() is on its way to return True
\* only for a response of status 200.
NonSuccessStatusFails ==
  \A t \in Threads : InLogin(t) => auth_response[t].status_code = 200

\* C7: with no concurrent activity, a get_session_id() call has called
\* login() exactly once when it returns if the session was stale when it
\* was entered (no token, or an expiry that has passed), and not at all
\* if the token was present with its expiry in the future.
ExpiryTriggersRelogin ==
  \A t \in Observed :
    pc[t] = "gs_83" => gs_logins[t] = (IF gs_stale[t] THEN 1 ELSE 0)

\* C7 witness: a call returns after its one login, made for a token whose
\* expiry had passed.
ExpiryTriggersReloginWitness ==
  \E t \in Observed :
    pc[t] = "gs_83" /\ gs_logins[t] = 1 /\ Truthy(r_sid[t])

\* C8: get_session_id() returns no token, or a token whose stored expiry
\* has not passed (with no concurrent activity the clock at the return is
\* the clock of the staleness check).
ServesOnlyValidTokens ==
  \A t \in Observed :
    pc[t] = "gs_83" =>
      \/ ~Truthy(gs_result[t])
      \/ session_expiry # NoTime /\ now < session_expiry[1]

\* C9: the locked update of a successful login is exclusive and complete:
\* the thread holds the lock while it writes, and the step that ends the
\* update leaves the token this login received, the expiry of this login
\* (its datetime.now() plus the refresh period) and no last_error.
LoginInstallsSession ==
  /\ [](\A t \in Threads : pc[t] \in {"login_48", "login_49"} => lock = t)
  /\ [][\A t \in Threads :
          (pc[t] = "login_49" /\ pc'[t] # "login_49") =>
            /\ session_id' = LoginOutcome(auth_response[t]).sid
            /\ session_expiry' = At(login_time[t] + SESSION_REFRESH_MINUTES)
            /\ last_error' = None
            /\ lock' = None]_vars

\* C9 witness: the refresher's login has just returned True: the session
\* is the one it installed at this time, with no error left.
LoginInstallsSessionWitness ==
  /\ pc[Bg] = "bg_100"
  /\ Truthy(session_id)
  /\ session_expiry = At(now + SESSION_REFRESH_MINUTES)
  /\ last_error = None
  /\ lock = None

Returned(ev, n) == ev.ok /\ (ev.status # 401 \/ n = max_retries - 1)

ReturnedAsIs ==
  /\ [](\A t \in Observed :
          (pc[t] = "mar_done" /\ result[t].kind = "response") =>
             log[t][Len(log[t])] =
               Ev("request", log[t][Len(log[t])].sid, result[t].status_code,
                  TRUE))
  /\ [][\A t \in Observed :
          (pc[t] = "mar_141" /\ pc'[t] # "mar_141"
             /\ Returned(log'[t][Len(log'[t])], attempt[t])) =>
            /\ pc'[t] = "mar_done"
            /\ stack'[t] = stack[t]
            /\ result'[t] = [kind |-> "response",
                             status_code |-> log'[t][Len(log'[t])].status,
                             exc |-> None, at |-> attempt[t]]
            /\ session_id' = session_id
            /\ session_expiry' = session_expiry]_vars

\* C11 witness: a call has ended with the 401 of its final attempt, and
\* the session installed after the first 401 is still in the store.
ReturnedAsIsWitness ==
  \E t \in Observed :
    /\ pc[t] = "mar_done"
    /\ result[t] = [kind |-> "response", status_code |-> 401,
                    exc |-> None, at |-> 1]
    /\ Truthy(session_id)
    /\ session_expiry # NoTime

\* C12: when make_api_request returns a response whose status is not 2xx
\* to get_blocked_queries or add_to_whitelist, the handler's reply carries
\* that upstream status and the handler's account of the upstream failure
\* (for the whitelist, the upstream error message), not the generic
\* reply that the API could not be reached.
UpstreamStatusSurfaced ==
  [][\A t \in Workers :
       (/\ pc[t] = "mar_done" /\ pc'[t] = "replied"
        /\ result[t].kind = "response"
        /\ ~(200 <= result[t].status_code /\ result[t].status_code < 300)) =>
         /\ reply'[t].status = result[t].status_code
         /\ reply'[t].body =
              (IF handler[t] = "add_to_whitelist"
               THEN "Failed to add to whitelist: upstream error"
               ELSE "PiHole API returned status code")]_vars

\* C13: invalidate() always ends, by returning to its caller, with the
\* token and the expiry both absent, whatever the store held; no step of
\* it puts anything into an empty store (so a second invalidate() changes
\* nothing), and between its two writes it holds the lock.
IdempotentInvalidate ==
  /\ [](\A t \in Threads : pc[t] = "inv_89" => lock = t /\ session_id = None)
  /\ [][\A t \in Threads :
          (pc[t] \in {"inv_88", "inv_89"} /\ pc'[t] # pc[t]) =>
            /\ pc[t] = "inv_88" => pc'[t] = "inv_89" /\ stack'[t] = stack[t]
            /\ pc[t] = "inv_89" =>
                 /\ pc'[t] = Head(stack[t]) /\ stack'[t] = Tail(stack[t])
                 /\ session_id' = None /\ session_expiry' = NoTime
                 /\ lock' = None
            /\ (session_id = None /\ session_expiry = NoTime) =>
                 (session_id' = None /\ session_expiry' = NoTime)]_vars

\* C13 witness: one request thread has returned from invalidate() and
\* another is inside its own invalidate() of the store the first one left
\* empty.
IdempotentInvalidateWitness ==
  /\ pc["w1"] = "mar_156"
  /\ pc["w2"] = "inv_89"
  /\ session_id = None /\ session_expiry = NoTime

\* C14: the refresher never stops: once started it is never ended by an
\* exception, every sleep that ends is followed by a call of login()
\* whatever the session is, every return of that login() (True or False)
\* leads back to the sleep, and login() is called by it again and again
\* for ever.
RefresherNeverStops ==
  /\ [](pc[Bg] \in {"off", "bg_101", "bg_100", "login_36", "login_46",
                    "login_48", "login_49"})
  /\ [][/\ (pc[Bg] = "bg_101" /\ pc'[Bg] # "bg_101") => pc'[Bg] = "login_36"
        /\ (pc[Bg] = "bg_100" /\ pc'[Bg] # "bg_100") => pc'[Bg] = "bg_101"]_vars
  /\ [](pc[Bg] = "bg_101" /\ now >= bg_wake => ENABLED Bg102)
  /\ (pc[Bg] = "bg_100") ~> (pc[Bg] = "login_36")
  /\ []<>(pc[Bg] = "login_36")

\* C14 witness: a tick's login has returned with an error recorded while
\* the store holds a session that has not expired; the loop is at its
\* next round.
RefresherNeverStopsWitness ==
  /\ pc[Bg] = "bg_100"
  /\ last_error # None
  /\ Truthy(session_id)
  /\ session_expiry # NoTime /\ now < session_expiry[1]

\* C15: a whitelist request whose body has no domain, or a domain that is
\* empty or only whitespace, is answered with an error without any
\* upstream call: the handler is never inside make_api_request, login() or
\* invalidate() for such a request, and the step that takes the request
\* replies at once and leaves the session state as it is.
Blank(b) ==
  ~b.json \/ ~b.has \/ \A i \in 1..Len(b.domain) : b.domain[i] \in Whitespace

ValidationRejects ==
  /\ [](\A t \in Workers :
          (handler[t] = "add_to_whitelist" /\ Blank(req[t])) =>
            /\ pc[t] = "replied"
            /\ reply[t].status \in {400, 500}
            /\ reply[t].body \in {"Domain is required", "Error processing request"}
            /\ log[t] = <<>>)
  /\ [][\A t \in Workers :
          (handler'[t] = "add_to_whitelist" /\ handler[t] = None
             /\ Blank(req'[t])) =>
            /\ pc'[t] = "replied"
            /\ UNCHANGED <<session_id, session_expiry, last_error, lock>>]_vars

\* C15 witness: a request with a domain of whitespace only has been
\* answered 400 while the store holds a session.
ValidationRejectsWitness ==
  \E t \in Workers :
    /\ req[t] = Body(TRUE, TRUE, <<" ", "\t">>)
    /\ reply[t] = Reply("Domain is required", 400)
    /\ Truthy(session_id)

\* C16: the aggregation of a list of query records (domain, status, time)
\* has one entry for each distinct non-empty domain (of which it keeps at
\* most MAX_ENTRIES), no two entries for one domain; an entry's count is
\* the number of records of its domain and its latest_timestamp the
\* greatest time among them; the entries are in descending order of
\* latest_timestamp.
RecordsOf(d) == {i \in 1..Len(queries) : Get(queries[i], "domain", "") = d}

AggregationCorrect ==
  blocked_list # NoList =>
    LET out == blocked_list[1]
        domains == {Get(queries[i], "domain", "") : i \in 1..Len(queries)} \ {""}
    IN
      /\ Len(out) = IF Cardinality(domains) < MAX_ENTRIES
                    THEN Cardinality(domains) ELSE MAX_ENTRIES
      /\ \A i \in 1..Len(out) :
           /\ out[i].domain \in domains
           /\ \A j \in 1..Len(out) : out[j].domain = out[i].domain => j = i
           /\ out[i].count = Cardinality(RecordsOf(out[i].domain))
           /\ \E k \in RecordsOf(out[i].domain) :
                /\ out[i].latest_timestamp = queries[k].time
                /\ \A m \in RecordsOf(out[i].domain) :
                     queries[m].time <= queries[k].time
      /\ \A i \in 1..(Len(out) - 1) :
           out[i].latest_timestamp >= out[i + 1].latest_timestamp

\* C17: the lock is never held across a network call: a thread whose
\* authentication request or proxied API request is in flight does not
\* hold the lock, and whoever holds the lock is between the two writes of
\* login's update or of invalidate(), with no call of any kind ahead of
\* the release.
InFlight(t) == pc[t] \in {"login_36", "mar_141"}

NoLockAcrossNetwork ==
  \A t \in Threads :
    /\ InFlight(t) => lock # t
    /\ lock = t => pc[t] \in {"login_48", "login_49", "inv_89"}

\* C17 witness: while the authentication request of one request thread is
\* in flight, the other one is inside invalidate() with the lock.
NoLockAcrossNetworkWitness ==
  /\ pc["w1"] = "login_36"
  /\ pc["w2"] = "inv_89"
  /\ lock = "w2"

\* C18: a get_session_id() call that runs while other threads log in and
\* invalidate completes normally: from the condition of line 79 it goes
\* on within the condition, to its one call of login() or to the locked
\* return, never to an exception handler, and login() returns to the
\* locked return.
BenignRace ==
  [][\A t \in Threads :
       /\ (pc[t] \in {"gs_79", "gs_79b", "gs_79c"} /\ pc'[t] # pc[t]) =>
            \/ pc'[t] \in {"gs_79b", "gs_79c", "gs_82"} /\ stack'[t] = stack[t]
            \/ pc'[t] = "login_36" /\ stack'[t] = <<"gs_82">> \o stack[t]
       /\ (pc[t] = "gs_82" /\ pc'[t] # pc[t]) => pc'[t] = "gs_83"]_vars

\* C19: last_error changes only through login(): a step that changes it
\* is the return of a failed login, which leaves a text, or the end of a
\* successful login's update, which clears it; no step of invalidate(),
\* get_session_id(), make_api_request or a handler writes it.
LastErrorOnlyByLogin ==
  [][last_error' # last_error =>
       \E t \in Threads :
         \/ /\ pc[t] = "login_36" /\ pc'[t] = Head(stack[t])
            /\ last_error' \notin {None, ""}
         \/ /\ pc[t] = "login_49" /\ pc'[t] = Head(stack[t])
            /\ last_error' = None]_vars

\* C19 witness: a request thread has returned from invalidate() and the
\* error a failed login recorded is still there.
LastErrorOnlyByLoginWitness ==
  /\ pc["w1"] = "mar_156"
  /\ last_error = "Login error: connection"
  /\ session_id = None

\* C20: a login() that returns False leaves the cached session as it was:
\* the step in which it fails (a transport exception, an unparseable body
\* or a response without a token) changes neither the token nor the
\* expiry nor the lock, only last_error, which then holds a text.
FailedLoginKeepsSession ==
  [][\A t \in Threads :
       (pc[t] = "login_36" /\ pc'[t] = Head(stack[t])) =>
         /\ session_id' = session_id
         /\ session_expiry' = session_expiry
         /\ lock' = lock
         /\ last_error' \notin {None, ""}]_vars

\* C20 witness: the refresher's login has failed on an unparseable body
\* while the store holds a session that has not expired, and the session
\* is still there.
FailedLoginKeepsSessionWitness ==
  /\ pc[Bg] = "bg_100"
  /\ last_error = "Login error: json"
  /\ session_id = "A"
  /\ session_expiry = At(now + SESSION_REFRESH_MINUTES)
  /\ lock = None

====
